---- MODULE Spec2Model ----
(***************************************************************************)
(* Model of the conversion orchestration of src/App.tsx: the pending file  *)
(* list and its handlers (handleFilesAdded, handleRemoveFile,              *)
(* handleClearAll, the combine toggle) and the asynchronous handleConvert, *)
(* cut into one action per stretch of code between two awaits.             *)
(*                                                                         *)
(* JavaScript strings that the code builds are sequences of pieces, so     *)
(* that join, template strings and the empty string keep their meaning;    *)
(* a value of type string | null is a record [isNull, str].                *)
(***************************************************************************)
EXTENDS Integers, Sequences, FiniteSets, TLC

\* ------------------------------------------------------------------ bounds
MaxFiles == 3     \* cap on the length of the pending list
MaxBatch == 2     \* cap on the length of one batch handed to handleFilesAdded

\* the files the user picks from, and the text each holds
AllNames == <<"A.pdf", "B.pdf", "C.pdf">>
AllTexts == <<"TextA", "TextB", "TextC">>
Names == {AllNames[k] : k \in 1..Len(AllNames)}

\* ------------------------------------------------------- program constants
NoFilesSelected == "Please select one or more PDF files first."
NoTextExtracted == "Could not extract text from any of the provided files."
UnknownError    == "An unknown error occurred during conversion."
Separator       == "\n\n<hr />\n\n"
CombinedOutput  == "Combined Output"
ServiceMessage  == "The transformation service failed."

VARIABLES
  pdfFiles,           \* useState<File[]>: the pending files, by name
  isConverting,       \* useState<boolean>: the in-progress flag
  results,            \* useState<Result[]>
  error,              \* useState<string>
  combineOutput,      \* useState<boolean>: TRUE = combined mode
  conversionStatus,   \* useState(''): the status string, as pieces
  pc,                 \* position of handleConvert
  runFiles,           \* pdfFiles as captured by the running handleConvert
  allTexts,           \* extraction result per index of runFiles
  outstanding,        \* indices of runFiles whose extraction is in flight
  idx,                \* loop variable i of the individual branch (1-based)
  individualResults,  \* local array of the individual branch
  extractLog,         \* indices handed to extractPdfText by the latest run
  transformLog        \* texts handed to convertTextToHtml by the latest run

vars == <<pdfFiles, isConverting, results, error, combineOutput,
          conversionStatus, pc, runFiles, allTexts, outstanding, idx,
          individualResults, extractLog, transformLog>>

uiState  == <<pdfFiles, isConverting, results, error, combineOutput, conversionStatus>>
runLocal == <<runFiles, allTexts, outstanding, idx, individualResults>>
adapterLogs == <<extractLog, transformLog>>

\* ------------------------------------------------------------- JS values
Null   == [isNull |-> TRUE,  str |-> <<>>]
Str(s) == [isNull |-> FALSE, str |-> s]
EmptyString == <<>>

\* if (text): null and '' are falsy
Truthy(v) == ~v.isNull /\ v.str # EmptyString

TextOf(name) == <<AllTexts[CHOOSE k \in 1..Len(AllNames) : AllNames[k] = name]>>

\* What extractPdfText can hand back for a file: its text, an empty text
\* (a document without a text layer) or null (extraction failed).
ExtractOutcomes(name) == {Str(TextOf(name)), Str(EmptyString), Null}

\* What convertTextToHtml can do with a text: resolve with markup, or reject
\* with an Error whose message may be empty.
GeneratedHtml(text) == <<"<article>">> \o text \o <<"</article>">>
TransformOutcomes(text) ==
  {[ok |-> TRUE,  html |-> GeneratedHtml(text), message |-> ""],
   [ok |-> FALSE, html |-> EmptyString, message |-> ServiceMessage],
   [ok |-> FALSE, html |-> EmptyString, message |-> ""]}

\* ---------------------------------------------------------- pure helpers
NameSet(s) == {s[k] : k \in 1..Len(s)}

\* allTexts.filter(text => text !== null), as the strings themselves
ValidTexts(texts) ==
  LET nonNull == SelectSeq(texts, LAMBDA v : ~v.isNull)
  IN  [k \in 1..Len(nonNull) |-> nonNull[k].str]

RECURSIVE Join_TrailingSeparator(_, _)
\* Mutant of Join: the separator follows every text, the last one included
Join_TrailingSeparator(texts, sep) ==
  IF texts = <<>> THEN EmptyString
  ELSE texts[1] \o <<sep>> \o Join_TrailingSeparator(Tail(texts), sep)

RECURSIVE Join(_, _)
\* Array.prototype.join(sep)
Join(texts, sep) ==
  IF texts = <<>> THEN EmptyString
  ELSE IF Len(texts) = 1 THEN texts[1]
  ELSE texts[1] \o <<sep>> \o Join(Tail(texts), sep)

ExtractingStatus(n) == <<"Extracting text from ", n, " files...">>
CombiningStatus     == <<"AI is converting combined text...">>
ConvertingStatus(name, i, n) == <<"Converting ", name, " (", i, "/", n, ")...">>

\* Mutant of ErrorText: the message is used as it comes, without the fallback
ErrorText_NoFallback(message) == message

\* e.message || 'An unknown error occurred during conversion.'
ErrorText(message) == IF message # "" THEN message ELSE UnknownError

\* const isLoading = isConverting || isExtracting, where isExtracting is the
\* extraction hook's own flag, raised while an extraction is in flight
isExtracting == outstanding # {}
isLoading == isConverting \/ isExtracting

Init ==
  /\ pdfFiles = <<>>
  /\ isConverting = FALSE
  /\ results = <<>>
  /\ error = ""
  /\ combineOutput = TRUE
  /\ conversionStatus = EmptyString
  /\ pc = "idle"
  /\ runFiles = <<>>
  /\ allTexts = <<>>
  /\ outstanding = {}
  /\ idx = 0
  /\ individualResults = <<>>
  /\ extractLog = <<>>
  /\ transformLog = <<>>

\* --------------------------------------------------- the file set handlers
\* Mutant of UniqueNewFiles: the candidates are not filtered
UniqueNewFiles_NoFilter(prevFiles, newFiles) == newFiles

\* newFiles.filter(f => !existingFileNames.has(f.name))
UniqueNewFiles(prevFiles, newFiles) ==
  SelectSeq(newFiles, LAMBDA n : n \notin NameSet(prevFiles))

\* prevFiles.filter(f => f.name !== fileName)
WithoutName(prevFiles, fileName) ==
  SelectSeq(prevFiles, LAMBDA n : n # fileName)

Batches == UNION {[1..k -> Names] : k \in 0..MaxBatch}

\* The frame and the adapter record of the last run are dropped when the
\* user next edits the file set or the mode.
Forget ==
  /\ pc' = "idle"
  /\ runFiles' = <<>>
  /\ allTexts' = <<>>
  /\ outstanding' = {}
  /\ idx' = 0
  /\ individualResults' = <<>>
  /\ extractLog' = <<>>
  /\ transformLog' = <<>>

HandleFilesAdded(newFiles) ==
  /\ ~isLoading
  /\ Len(pdfFiles \o UniqueNewFiles(pdfFiles, newFiles)) <= MaxFiles
  /\ pdfFiles' = pdfFiles \o UniqueNewFiles(pdfFiles, newFiles)
  /\ results' = <<>>
  /\ error' = ""
  /\ UNCHANGED <<isConverting, combineOutput, conversionStatus>>
  /\ Forget

\* Mutant of HandleRemoveFile: the results are cleared as handleFilesAdded
\* clears them
HandleRemoveFile_ClearsResults(fileName) ==
  /\ ~isLoading
  /\ pdfFiles' = WithoutName(pdfFiles, fileName)
  /\ results' = <<>>
  /\ UNCHANGED <<isConverting, error, combineOutput, conversionStatus>>
  /\ Forget

HandleRemoveFile(fileName) ==
  /\ ~isLoading
  /\ pdfFiles' = WithoutName(pdfFiles, fileName)
  /\ UNCHANGED <<isConverting, results, error, combineOutput, conversionStatus>>
  /\ Forget

\* Mutant of HandleClearAll: setError('') is missing
HandleClearAll_KeepsError ==
  /\ ~isLoading
  /\ pdfFiles' = <<>>
  /\ results' = <<>>
  /\ UNCHANGED <<isConverting, error, combineOutput, conversionStatus>>
  /\ Forget

HandleClearAll ==
  /\ ~isLoading
  /\ pdfFiles' = <<>>
  /\ results' = <<>>
  /\ error' = ""
  /\ UNCHANGED <<isConverting, combineOutput, conversionStatus>>
  /\ Forget

\* Mutant of ToggleCombine: the toggle is not disabled while a run is in
\* progress
ToggleCombine_Unguarded(checked) ==
  /\ combineOutput' = checked
  /\ UNCHANGED <<pdfFiles, isConverting, results, error, conversionStatus>>
  /\ UNCHANGED <<pc, runFiles, allTexts, outstanding, idx, individualResults>>
  /\ UNCHANGED adapterLogs

\* onChange={e => setCombineOutput(e.target.checked)}
ToggleCombine(checked) ==
  /\ ~isLoading
  /\ combineOutput' = checked
  /\ UNCHANGED <<pdfFiles, isConverting, results, error, conversionStatus>>
  /\ Forget

\* ------------------------------------------------------------ handleConvert
\* Mutant of Finally: the status string is left as it was
Finally_KeepsStatus ==
  /\ isConverting' = FALSE
  /\ UNCHANGED conversionStatus
  /\ pc' = "done"

\* finally { setIsConverting(false); setConversionStatus(''); }
Finally ==
  /\ isConverting' = FALSE
  /\ conversionStatus' = EmptyString
  /\ pc' = "done"

\* Mutant of CatchAndFinish: the cleanup is not in a finally block, so an
\* exception skips it
CatchAndFinish_NoCleanup(message) ==
  /\ error' = ErrorText(message)
  /\ pc' = "done"
  /\ UNCHANGED <<isConverting, conversionStatus>>

\* catch (e) { setError(e.message || ...) } followed by the finally block
CatchAndFinish(message) ==
  /\ error' = ErrorText(message)
  /\ Finally

\* Mutant of RejectEmpty: setIsConverting(true) comes before the validation
RejectEmpty_SetsFlag ==
  /\ error' = NoFilesSelected
  /\ isConverting' = TRUE
  /\ pc' = "rejected"
  /\ UNCHANGED <<pdfFiles, results, combineOutput, conversionStatus>>
  /\ UNCHANGED runLocal
  /\ UNCHANGED adapterLogs

\* if (pdfFiles.length === 0) { setError(...); return; }
RejectEmpty ==
  /\ error' = NoFilesSelected
  /\ pc' = "rejected"
  /\ UNCHANGED <<pdfFiles, isConverting, results, combineOutput, conversionStatus>>
  /\ UNCHANGED runLocal
  /\ UNCHANGED adapterLogs

\* pdfFiles.map(file => extractPdfText(file)) under Promise.all
StartCombined ==
  /\ conversionStatus' = ExtractingStatus(Len(pdfFiles))
  /\ outstanding' = 1..Len(pdfFiles)
  /\ extractLog' = [k \in 1..Len(pdfFiles) |-> k]
  /\ idx' = 0
  /\ pc' = "extracting"

\* Mutant of StartIndividual: the extractions of all files are issued at once,
\* as in the combined branch
StartIndividual_FanOut ==
  /\ conversionStatus' = ConvertingStatus(pdfFiles[1], 1, Len(pdfFiles))
  /\ outstanding' = 1..Len(pdfFiles)
  /\ extractLog' = [k \in 1..Len(pdfFiles) |-> k]
  /\ idx' = 1
  /\ pc' = "ind_extract"

\* first pass of the for loop, up to await extractPdfText(file)
StartIndividual ==
  /\ conversionStatus' = ConvertingStatus(pdfFiles[1], 1, Len(pdfFiles))
  /\ outstanding' = {1}
  /\ extractLog' = <<1>>
  /\ idx' = 1
  /\ pc' = "ind_extract"

\* Mutant of StartRun: setResults([]) at the start of the run is missing
StartRun_KeepsResults ==
  /\ isConverting' = TRUE
  /\ error' = ""
  /\ runFiles' = pdfFiles
  /\ allTexts' = [k \in 1..Len(pdfFiles) |-> Null]
  /\ individualResults' = <<>>
  /\ transformLog' = <<>>
  /\ IF combineOutput THEN StartCombined ELSE StartIndividual
  /\ UNCHANGED <<pdfFiles, combineOutput, results>>

StartRun ==
  /\ isConverting' = TRUE
  /\ error' = ""
  /\ results' = <<>>
  /\ runFiles' = pdfFiles
  /\ allTexts' = [k \in 1..Len(pdfFiles) |-> Null]
  /\ individualResults' = <<>>
  /\ transformLog' = <<>>
  /\ IF combineOutput THEN StartCombined ELSE StartIndividual
  /\ UNCHANGED <<pdfFiles, combineOutput>>

\* Mutant of HandleConvert: the convert control is not disabled while a run
\* is in progress
HandleConvert_Unguarded ==
  IF Len(pdfFiles) = 0 THEN RejectEmpty ELSE StartRun

HandleConvert ==
  /\ ~isLoading
  /\ pc \in {"idle", "rejected", "done"}
  /\ IF Len(pdfFiles) = 0 THEN RejectEmpty ELSE StartRun

\* await convertTextToHtml(text): the call goes out
CallTransform(text) ==
  transformLog' = Append(transformLog,
                         [text |-> text, result |-> "pending", message |-> ""])

\* the promise of the latest convertTextToHtml call settles
SettleTransform(outcome) ==
  transformLog' = [transformLog EXCEPT ![Len(transformLog)] =
                     [text    |-> @.text,
                      result  |-> IF outcome.ok THEN "resolved" ELSE "rejected",
                      message |-> outcome.message]]

\* Mutant of ExtractSettles: the values are collected in the order in which
\* the extractions complete
ExtractSettles_InCompletionOrder(i, text) ==
  /\ pc = "extracting"
  /\ i \in outstanding
  /\ allTexts' = [allTexts EXCEPT ![Len(runFiles) - Cardinality(outstanding) + 1] = text]
  /\ outstanding' = outstanding \ {i}
  /\ UNCHANGED uiState
  /\ UNCHANGED <<pc, runFiles, idx, individualResults>>
  /\ UNCHANGED adapterLogs

\* One of the extractions issued under Promise.all resolves; Promise.all
\* keeps its value at the index of its file.
ExtractSettles(i, text) ==
  /\ pc = "extracting"
  /\ i \in outstanding
  /\ allTexts' = [allTexts EXCEPT ![i] = text]
  /\ outstanding' = outstanding \ {i}
  /\ UNCHANGED uiState
  /\ UNCHANGED <<pc, runFiles, idx, individualResults>>
  /\ UNCHANGED adapterLogs

\* Promise.all has resolved: filter, the empty check, join, and the call of
\* convertTextToHtml on the combined text
CombineTexts ==
  /\ pc = "extracting"
  /\ outstanding = {}
  /\ LET validTexts == ValidTexts(allTexts)
     IN  IF Len(validTexts) = 0
         THEN /\ CatchAndFinish(NoTextExtracted)
              /\ UNCHANGED transformLog
         ELSE /\ conversionStatus' = CombiningStatus
              /\ CallTransform(Join(validTexts, Separator))
              /\ pc' = "transforming"
              /\ UNCHANGED <<isConverting, error>>
  /\ UNCHANGED <<pdfFiles, results, combineOutput>>
  /\ UNCHANGED runLocal
  /\ UNCHANGED extractLog

\* convertTextToHtml(combinedText) settles; setResults([...]) or the catch
CombinedTransformSettles(outcome) ==
  /\ pc = "transforming"
  /\ SettleTransform(outcome)
  /\ IF outcome.ok
     THEN /\ results' = <<[fileName |-> CombinedOutput, htmlContent |-> outcome.html]>>
          /\ Finally
          /\ UNCHANGED error
     ELSE /\ CatchAndFinish(outcome.message)
          /\ UNCHANGED results
  /\ UNCHANGED <<pdfFiles, combineOutput>>
  /\ UNCHANGED runLocal
  /\ UNCHANGED extractLog

\* Mutant of NextFile: setResults is called in every pass of the loop
NextFile_PublishesEach(collected) ==
  /\ individualResults' = collected
  /\ idx' = idx + 1
  /\ results' = collected
  /\ IF idx < Len(runFiles)
     THEN /\ conversionStatus' = ConvertingStatus(runFiles[idx + 1], idx + 1, Len(runFiles))
          /\ outstanding' = {idx + 1}
          /\ extractLog' = Append(extractLog, idx + 1)
          /\ pc' = "ind_extract"
          /\ UNCHANGED isConverting
     ELSE /\ Finally
          /\ outstanding' = {}
          /\ UNCHANGED extractLog
  /\ UNCHANGED error

\* The rest of a loop pass: i++, then either the next pass up to its
\* await extractPdfText(file), or the loop ends, setResults(individualResults)
\* and the finally block run.
NextFile(collected) ==
  /\ individualResults' = collected
  /\ idx' = idx + 1
  /\ IF idx < Len(runFiles)
     THEN /\ conversionStatus' = ConvertingStatus(runFiles[idx + 1], idx + 1, Len(runFiles))
          /\ outstanding' = {idx + 1}
          /\ extractLog' = Append(extractLog, idx + 1)
          /\ pc' = "ind_extract"
          /\ UNCHANGED <<isConverting, results>>
     ELSE /\ results' = collected
          /\ Finally
          /\ outstanding' = {}
          /\ UNCHANGED extractLog
  /\ UNCHANGED error

\* Mutant of IndExtractSettles: a file without text throws, as the combined
\* branch does when no file has text
IndExtractSettles_Throws(text) ==
  /\ pc = "ind_extract"
  /\ allTexts' = [allTexts EXCEPT ![idx] = text]
  /\ IF Truthy(text)
     THEN /\ CallTransform(text.str)
          /\ pc' = "ind_transform"
          /\ outstanding' = {}
          /\ UNCHANGED <<isConverting, results, error, conversionStatus>>
          /\ UNCHANGED <<idx, individualResults, extractLog>>
     ELSE /\ CatchAndFinish(NoTextExtracted)
          /\ outstanding' = {}
          /\ UNCHANGED <<results, idx, individualResults, extractLog, transformLog>>
  /\ UNCHANGED <<pdfFiles, combineOutput, runFiles>>

\* await extractPdfText(file) resolves in the loop: if (text) ... else ...
IndExtractSettles(text) ==
  /\ pc = "ind_extract"
  /\ allTexts' = [allTexts EXCEPT ![idx] = text]
  /\ IF Truthy(text)
     THEN /\ CallTransform(text.str)
          /\ pc' = "ind_transform"
          /\ outstanding' = {}
          /\ UNCHANGED <<isConverting, results, error, conversionStatus>>
          /\ UNCHANGED <<idx, individualResults, extractLog>>
     ELSE /\ NextFile(individualResults)
          /\ UNCHANGED transformLog
  /\ UNCHANGED <<pdfFiles, combineOutput, runFiles>>

\* await convertTextToHtml(text) settles in the loop: push, or the catch
IndTransformSettles(outcome) ==
  /\ pc = "ind_transform"
  /\ SettleTransform(outcome)
  /\ IF outcome.ok
     THEN NextFile(Append(individualResults,
                          [fileName |-> runFiles[idx], htmlContent |-> outcome.html]))
     ELSE /\ CatchAndFinish(outcome.message)
          /\ UNCHANGED <<results, idx, individualResults, outstanding, extractLog>>
  /\ UNCHANGED <<pdfFiles, combineOutput, runFiles, allTexts>>

\* The extraction of one file of a combined run completes
ExtractionCompletes ==
  /\ pc = "extracting"
  /\ \E i \in outstanding : \E text \in ExtractOutcomes(runFiles[i]) :
       ExtractSettles(i, text)

\* The transformation of the combined text completes or fails
CombinedTransformCompletes ==
  /\ pc = "transforming"
  /\ \E outcome \in TransformOutcomes(transformLog[Len(transformLog)].text) :
       CombinedTransformSettles(outcome)

\* The extraction of the current file of an individual run completes
IndExtractionCompletes ==
  /\ pc = "ind_extract"
  /\ \E text \in ExtractOutcomes(runFiles[idx]) : IndExtractSettles(text)

\* The transformation of the current file of an individual run completes or fails
IndTransformCompletes ==
  /\ pc = "ind_transform"
  /\ \E outcome \in TransformOutcomes(transformLog[Len(transformLog)].text) :
       IndTransformSettles(outcome)

Next ==
  \/ \E newFiles \in Batches : HandleFilesAdded(newFiles)
  \/ \E fileName \in Names : HandleRemoveFile(fileName)
  \/ HandleClearAll
  \/ \E checked \in BOOLEAN : ToggleCombine(checked)
  \/ HandleConvert
  \/ ExtractionCompletes
  \/ CombineTexts
  \/ CombinedTransformCompletes
  \/ IndExtractionCompletes
  \/ IndTransformCompletes

Spec == Init /\ [][Next]_vars

\* Every adapter call eventually completes or fails, and the continuation of
\* a settled promise is run by the event loop.
Fairness ==
  /\ WF_vars(ExtractionCompletes)
  /\ WF_vars(CombineTexts)
  /\ WF_vars(CombinedTransformCompletes)
  /\ WF_vars(IndExtractionCompletes)
  /\ WF_vars(IndTransformCompletes)

FairSpec == Spec /\ Fairness

\* ================================================================ claims
Running == {"extracting", "transforming", "ind_extract", "ind_transform"}
Returned == {"rejected", "done"}
CombinedRunEnded   == pc = "done" /\ combineOutput
IndividualRunEnded == pc = "done" /\ ~combineOutput
FileCount == Len(runFiles)

\* C1: after any run has ended, a run rejected for an empty pending list
\* included, the result list and the error string are not both non-empty.
C1_ErrorExcludesResults ==
  pc \in Returned => ~(results # <<>> /\ error # "")

\* C2: every name occurs at most once in the pending list.
C2_NamesUnique ==
  \A i, j \in 1..Len(pdfFiles) : pdfFiles[i] = pdfFiles[j] => i = j

\* The indices of the files whose extraction handed back a string (not null)
Survivors == {i \in 1..FileCount : ~allTexts[i].isNull}

RECURSIVE SurvivingTextFrom(_)
\* The texts of the survivors at index i and above, in index order, with the
\* separator between each consecutive pair
SurvivingTextFrom(i) ==
  IF i > FileCount THEN EmptyString
  ELSE IF i \notin Survivors THEN SurvivingTextFrom(i + 1)
  ELSE IF \E j \in Survivors : j > i
       THEN allTexts[i].str \o <<"\n\n<hr />\n\n">> \o SurvivingTextFrom(i + 1)
       ELSE allTexts[i].str

\* C3: a combined run calls the transformation not at all while extractions
\* are pending; once all have completed, with K > 0 survivors it has called it
\* exactly once, on the K surviving texts in file order with the separator
\* between consecutive texts, and with K = 0 it never calls it and ends with
\* the "Could not extract text" error.
C3_CombinedTransformInput ==
  /\ pc = "extracting" => transformLog = <<>>
  /\ (pc = "transforming" \/ CombinedRunEnded) =>
       IF Survivors # {}
       THEN /\ Len(transformLog) = 1
            /\ transformLog[1].text = SurvivingTextFrom(1)
       ELSE /\ transformLog = <<>>
            /\ pc = "done"
            /\ error = "Could not extract text from any of the provided files."

C3_Witness ==
  /\ pc = "transforming"
  /\ FileCount = 3
  /\ Cardinality(Survivors) = 2
  /\ allTexts[2].isNull
  /\ transformLog[1].text = <<"TextA", "\n\n<hr />\n\n", "TextC">>

C3_WitnessNoText ==
  /\ CombinedRunEnded
  /\ FileCount = 2
  /\ Survivors = {}
  /\ transformLog = <<>>

\* The files of an individual run that got through both steps, as the
\* indices of runFiles: the k-th transformation call belongs to the k-th
\* file whose extraction gave a non-empty text.
WithText == {i \in 1..FileCount : ~allTexts[i].isNull /\ allTexts[i].str # <<>>}
CallOf(i) == Cardinality({j \in WithText : j <= i})
Succeeded ==
  {i \in WithText : CallOf(i) <= Len(transformLog)
                    /\ transformLog[CallOf(i)].result = "resolved"}

\* C4: after an individual run the result list holds exactly one entry,
\* labelled with the file name, per file whose extraction and transformation
\* both succeeded, in file order.
\* (Stated for runs over lists without a repeated name, so that it does not
\* depend on C2.)
C4_IndividualResults ==
  (IndividualRunEnded /\ Cardinality(NameSet(runFiles)) = FileCount) =>
    /\ Len(results) = Cardinality(Succeeded)
    /\ \A i \in Succeeded :
         results[Cardinality({j \in Succeeded : j <= i})].fileName = runFiles[i]

\* C5: the in-progress flag is true exactly in the states between the start
\* and the end of a run, and the status string is empty whenever the flag is
\* false.
C5_InProgressFlag ==
  /\ isConverting <=> pc \in Running
  /\ ~isConverting => conversionStatus = <<>>

C5_Witness ==
  /\ pc = "ind_transform"
  /\ idx = 2
  /\ isConverting
  /\ conversionStatus = <<"Converting ", "B.pdf", " (", 2, "/", 2, ")...">>

\* C6: every run that passed validation terminates, and at its termination
\* the in-progress flag is false and the status string is empty, whichever
\* way the run ended.
C6_RunTerminates ==
  (pc \in Running) ~> (pc = "done" /\ ~isConverting /\ conversionStatus = <<>>)

\* an individual run that ended by an exception of the transformation
C6_Witness ==
  /\ IndividualRunEnded
  /\ transformLog # <<>>
  /\ transformLog[Len(transformLog)].result = "rejected"
  /\ ~isConverting
  /\ conversionStatus = <<>>

\* C7: during and after a combined run the result list is empty or holds
\* the single result labelled "Combined Output".
C7_CombinedAllOrNothing ==
  (pc \in {"extracting", "transforming"} \/ CombinedRunEnded) =>
    \/ results = <<>>
    \/ /\ Len(results) = 1
       /\ results[1].fileName = "Combined Output"
       /\ pc = "done"

C7_Witness ==
  /\ CombinedRunEnded
  /\ FileCount = 2
  /\ Len(results) = 1
  /\ results[1].fileName = "Combined Output"

\* C8: handleConvert on an empty pending list sets the validation error and
\* returns: no adapter is called, the in-progress flag stays false and the
\* status string is untouched.
C8_EmptyRunRejected ==
  [][(HandleConvert /\ Len(pdfFiles) = 0) =>
       /\ error' = "Please select one or more PDF files first."
       /\ isConverting' = FALSE
       /\ pc' \notin Running
       /\ UNCHANGED <<isConverting, conversionStatus, extractLog, transformLog, outstanding>>]_vars

C8_Witness ==
  /\ pc = "rejected"
  /\ pdfFiles = <<>>
  /\ error = "Please select one or more PDF files first."
  /\ ~isConverting
  /\ conversionStatus = <<>>

\* C9: a combined run whose transformation failed, or whose fan-out threw
\* because no file had text, ends with an empty result list, the failure's
\* message (or the generic fallback when it has none) as the error string, and
\* the in-progress flag false.
C9_CombinedFailure ==
  CombinedRunEnded =>
    /\ (transformLog # <<>> /\ transformLog[1].result = "rejected") =>
         /\ results = <<>>
         /\ ~isConverting
         /\ error = IF transformLog[1].message = ""
                    THEN "An unknown error occurred during conversion."
                    ELSE transformLog[1].message
    /\ transformLog = <<>> =>
         /\ results = <<>>
         /\ ~isConverting
         /\ error = "Could not extract text from any of the provided files."

\* the transformation failed without a message
C9_Witness ==
  /\ CombinedRunEnded
  /\ Len(transformLog) = 1
  /\ transformLog[1].result = "rejected"
  /\ transformLog[1].message = ""
  /\ error = "An unknown error occurred during conversion."

RejectedCalls == {k \in 1..Len(transformLog) : transformLog[k].result = "rejected"}

\* C10: in an individual run an extraction that gives no text is never a
\* run-level error: as long as no transformation has failed the error string
\* is empty, the run goes on to hand every file to the extraction, and a run
\* in which every extraction gave no text ends with an empty result list.
C10_ExtractionFailureIsLocal ==
  /\ (~combineOutput /\ pc \in {"ind_extract", "ind_transform", "done"} /\ RejectedCalls = {}) =>
       /\ error = ""
       /\ pc = "done" => extractLog = [k \in 1..FileCount |-> k]
  /\ (IndividualRunEnded /\ WithText = {}) =>
       /\ results = <<>>
       /\ error = ""
       /\ extractLog = [k \in 1..FileCount |-> k]

\* the first file gave no text, the second was still converted
C10_Witness ==
  /\ IndividualRunEnded
  /\ FileCount = 2
  /\ allTexts[1].isNull
  /\ Len(results) = 1
  /\ results[1].fileName = runFiles[2]
  /\ error = ""

\* every file gave no text
C10_WitnessAllFailed ==
  /\ IndividualRunEnded
  /\ FileCount = 2
  /\ WithText = {}
  /\ results = <<>>
  /\ error = ""

\* A step that takes handleConvert past its validation: the extractions of a
\* new run are issued
RunStarts ==
  \/ pc' = "extracting" /\ runFiles' # <<>> /\ outstanding' = 1..Len(runFiles')
  \/ pc' = "ind_extract" /\ idx' = 1

\* C11: a run is started only from a state in which no run is in progress:
\* the in-progress flag is false, handleConvert is not between two awaits and
\* no adapter call of an earlier run is outstanding.
C11_OneRunInFlight ==
  [][RunStarts =>
       /\ ~isConverting
       /\ pc \notin Running
       /\ outstanding = {}
       /\ \A k \in 1..Len(transformLog) : transformLog[k].result # "pending"]_vars

\* a run in progress, part of its extractions settled: the convert control
\* is disabled
C11_Witness ==
  /\ pc = "extracting"
  /\ FileCount = 3
  /\ outstanding = {2}
  /\ isLoading
  /\ ~ENABLED HandleConvert

\* C12: handleClearAll leaves the pending list, the result list and the
\* error string empty, in one step, whatever they held before.
C12_ClearEmptiesAll ==
  [][HandleClearAll => (pdfFiles' = <<>> /\ results' = <<>> /\ error' = "")]_vars

\* a state with files pending and an error on display, in which the clear
\* control is live
C12_Witness ==
  /\ pc = "done"
  /\ Len(pdfFiles) = 2
  /\ error # ""
  /\ ENABLED HandleClearAll

C12_WitnessResults ==
  /\ pc = "done"
  /\ Len(pdfFiles) = 2
  /\ results # <<>>
  /\ ENABLED HandleClearAll

PendingCalls == {k \in 1..Len(transformLog) : transformLog[k].result = "pending"}

\* C13: in an individual run the files are handed to the extraction one by
\* one in file order, and at most one adapter call is outstanding: while the
\* extraction of file i is in flight every earlier transformation has
\* settled, and while a transformation is in flight no extraction is.
C13_IndividualSequential ==
  pc \in {"ind_extract", "ind_transform"} =>
    /\ extractLog = [k \in 1..idx |-> k]
    /\ Cardinality(outstanding) + Cardinality(PendingCalls) = 1
    /\ pc = "ind_extract" => outstanding = {idx}
    /\ pc = "ind_transform" => PendingCalls = {Len(transformLog)}
    /\ \A i \in 1..(idx - 1) : Truthy(allTexts[i]) => transformLog[CallOf(i)].result = "resolved"

\* the second file is being extracted after the first was converted
C13_Witness ==
  /\ pc = "ind_extract"
  /\ idx = 2
  /\ outstanding = {2}
  /\ Len(transformLog) = 1
  /\ transformLog[1].result = "resolved"

RECURSIVE IsSubsequence(_, _)
\* s can be had from t by dropping elements
IsSubsequence(s, t) ==
  IF s = <<>> THEN TRUE
  ELSE IF t = <<>> THEN FALSE
  ELSE IF Head(s) = Head(t) THEN IsSubsequence(Tail(s), Tail(t))
  ELSE IsSubsequence(s, Tail(t))

\* the texts of the files of the run, in the order of submission
SubmittedTexts == [i \in 1..FileCount |-> TextOf(runFiles[i])[1]]

\* the pieces of a combined text other than the separators
TextsIn(combined) == SelectSeq(combined, LAMBDA piece : piece # "\n\n<hr />\n\n")

\* C14: a combined run issues the extraction of every file before any of
\* them completes and calls the transformation only once none is in flight;
\* in whatever order the extractions complete, each value stays at the index
\* of its file and the texts in the transformation's input follow the order
\* in which the files were submitted.
C14_SubmissionOrder ==
  /\ pc = "extracting" =>
       /\ extractLog = [k \in 1..FileCount |-> k]
       /\ transformLog = <<>>
       /\ \A i \in 1..FileCount : i \notin outstanding => allTexts[i] \in ExtractOutcomes(runFiles[i])
  /\ pc = "transforming" =>
       /\ outstanding = {}
       /\ \A i \in 1..FileCount : allTexts[i] \in ExtractOutcomes(runFiles[i])
       /\ IsSubsequence(TextsIn(transformLog[1].text), SubmittedTexts)

\* the second file's extraction has completed while the first is in flight
C14_Witness ==
  /\ pc = "extracting"
  /\ runFiles = <<"A.pdf", "B.pdf">>
  /\ outstanding = {1}
  /\ allTexts[2] = Str(<<"TextB">>)
  /\ transformLog = <<>>

\* all extractions in flight at once
C14_WitnessFanOut ==
  /\ pc = "extracting"
  /\ FileCount = 3
  /\ outstanding = {1, 2, 3}

\* the entry of file i as the loop builds it
EntryOf(i) ==
  [fileName |-> runFiles[i],
   htmlContent |-> <<"<article>">> \o allTexts[i].str \o <<"</article>">>]

\* C15 as stated: once file i's transformation has succeeded and the
\* extraction of file i+1 is in flight, the result list holds file i's entry.
C15_ResultsGrowDuringRun ==
  (pc = "ind_extract" /\ idx >= 2) =>
    \A i \in Succeeded : \E k \in 1..Len(results) : results[k] = EntryOf(i)

\* C15 as amended: during an individual run the entries are collected in the
\* local list, which holds the entry of every file converted so far, in file
\* order, as soon as the next extraction is in flight; the result list stays
\* empty while the run is in progress and takes the whole list when the loop
\* ends without an exception.
C15_CollectedThenPublished ==
  /\ pc \in {"ind_extract", "ind_transform"} =>
       /\ results = <<>>
       /\ Len(individualResults) = Cardinality(Succeeded)
       /\ \A i \in Succeeded :
            individualResults[Cardinality({j \in Succeeded : j <= i})] = EntryOf(i)
  /\ IndividualRunEnded =>
       results = IF RejectedCalls = {} THEN individualResults ELSE <<>>

\* the first file is converted, the second is being extracted, nothing is
\* on display yet
C15_Witness ==
  /\ pc = "ind_extract"
  /\ idx = 2
  /\ Len(individualResults) = 1
  /\ individualResults[1].fileName = runFiles[1]
  /\ results = <<>>

RECURSIVE NonEmptyTextFrom(_)
\* The texts of the files at index i and above that gave a non-empty text,
\* in index order, with the separator between each consecutive pair
NonEmptyTextFrom(i) ==
  IF i > FileCount THEN EmptyString
  ELSE IF i \notin WithText THEN NonEmptyTextFrom(i + 1)
  ELSE IF \E j \in WithText : j > i
       THEN allTexts[i].str \o <<"\n\n<hr />\n\n">> \o NonEmptyTextFrom(i + 1)
       ELSE allTexts[i].str

\* C16: in both modes a file whose extraction gave null or an empty text is
\* skipped: no transformation input is, or contains a share of, such a file,
\* and a combined run in which no file gave a non-empty text ends with the
\* "Could not extract text" error without calling the transformation.
C16_EmptyTextIsAbsent ==
  /\ pc \in {"ind_extract", "ind_transform"} \/ IndividualRunEnded =>
       /\ Len(transformLog) <= Cardinality(WithText)
       /\ \A k \in 1..Len(transformLog) : transformLog[k].text # <<>>
  /\ (pc = "transforming" \/ CombinedRunEnded) =>
       IF WithText = {}
       THEN /\ transformLog = <<>>
            /\ error = "Could not extract text from any of the provided files."
       ELSE /\ Len(transformLog) = 1
            /\ transformLog[1].text = NonEmptyTextFrom(1)

\* C17: while a run is in progress the pending list and the mode do not
\* change, and the list the run works on is the pending list as it was when
\* the run started.
C17_FixedDuringRun ==
  [][isConverting =>
       /\ pdfFiles' = pdfFiles
       /\ combineOutput' = combineOutput
       /\ runFiles = pdfFiles
       /\ isConverting' => runFiles' = runFiles]_vars

\* a run in progress: the controls of the file set and of the mode are dead
C17_Witness ==
  /\ pc = "transforming"
  /\ FileCount = 2
  /\ runFiles = pdfFiles
  /\ ~ENABLED HandleClearAll
  /\ ~ENABLED ToggleCombine(FALSE)
  /\ ~ENABLED HandleRemoveFile(pdfFiles[1])
  /\ ~ENABLED HandleFilesAdded(<<"C.pdf">>)

RECURSIVE NotPending(_, _)
\* the candidates whose name is not in the list, in arrival order
NotPending(candidates, pending) ==
  IF candidates = <<>> THEN <<>>
  ELSE IF \E k \in 1..Len(pending) : pending[k] = Head(candidates)
       THEN NotPending(Tail(candidates), pending)
       ELSE <<Head(candidates)>> \o NotPending(Tail(candidates), pending)

\* what a step has put behind the files that were pending before it
Appended == SubSeq(pdfFiles', Len(pdfFiles) + 1, Len(pdfFiles'))

\* C18: handleFilesAdded leaves the result list and the error string empty,
\* keeps every pending file at its position and appends the candidates whose
\* name was not pending, in arrival order; a batch of names that are all
\* pending leaves the list as it was.
\* (The first part is about what the handler appends for each batch it may be
\* given in a reachable state; the second about the step itself: a step of
\* handleFilesAdded for any batch is also its step for the part it appended.)
C18_AddAppends ==
  /\ [](\A newFiles \in Batches :
          LET added == UniqueNewFiles(pdfFiles, newFiles)
          IN  /\ added = NotPending(newFiles, pdfFiles)
              /\ (\A k \in 1..Len(newFiles) : \E m \in 1..Len(pdfFiles) : pdfFiles[m] = newFiles[k])
                   => pdfFiles \o added = pdfFiles)
  /\ [][(Len(pdfFiles') >= Len(pdfFiles) /\ HandleFilesAdded(Appended)) =>
          /\ results' = <<>>
          /\ error' = ""
          /\ SubSeq(pdfFiles', 1, Len(pdfFiles)) = pdfFiles
          /\ \A k \in 1..Len(Appended) : \A m \in 1..Len(pdfFiles) : Appended[k] # pdfFiles[m]]_vars

\* three files in an order that only a second add onto a non-empty list
\* gives, with nothing on display
C18_Witness ==
  /\ pc = "idle"
  /\ pdfFiles = <<"C.pdf", "A.pdf", "B.pdf">>
  /\ results = <<>>
  /\ error = ""

RECURSIVE Others(_, _)
\* the files of the list not named name, in their order
Others(files, name) ==
  IF files = <<>> THEN <<>>
  ELSE IF Head(files) = name THEN Others(Tail(files), name)
       ELSE <<Head(files)>> \o Others(Tail(files), name)

\* C19: handleRemoveFile changes the pending list only: no file named name
\* is left, the other files keep their order, a name that was not pending
\* leaves the list as it was, and the result list, the error string, the
\* in-progress flag, the status and the mode are untouched.
C19_RemoveOnlyPending ==
  [][\A fileName \in Names : HandleRemoveFile(fileName) =>
       /\ \A k \in 1..Len(pdfFiles') : pdfFiles'[k] # fileName
       /\ pdfFiles' = Others(pdfFiles, fileName)
       /\ (\A k \in 1..Len(pdfFiles) : pdfFiles[k] # fileName) => pdfFiles' = pdfFiles
       /\ UNCHANGED <<results, error, isConverting, conversionStatus, combineOutput>>]_vars

\* the results of a file that has since been removed are still on display
C19_Witness ==
  /\ pc = "idle"
  /\ pdfFiles = <<"B.pdf">>
  /\ Len(results) = 2
  /\ results[1].fileName = "A.pdf"
  /\ results[2].fileName = "B.pdf"

====
